---- MODULE Spec2Model ----
(***************************************************************************)
(* Model of shared/utils.py (recurrence resolution, task fingerprint,      *)
(* user date-time parsing, MarkdownV2 escaping), of config.TIMEZONE and    *)
(* config.ADMIN_SECRET, and of the admin middleware of web_api.py.         *)
(*                                                                         *)
(* The program is a library of synchronous functions and one HTTP          *)
(* middleware.  A state is the configuration (zone, admin secret), the     *)
(* admin_secret cookie the client holds, plus the call in progress and its *)
(* result; every call starts in the idle state and Return goes back to it. *)
(*                                                                         *)
(* Strings are sequences of one-character strings.  A naive datetime is a  *)
(* record [year, month, day, hour, minute].  A zone is modelled by its     *)
(* fixed offset from UTC in minutes (zones without DST transitions).       *)
(***************************************************************************)
EXTENDS Integers, Sequences, FiniteSets, TLC

VARIABLES tz, call, ret, prev, ADMIN_SECRET, cookies

vars == <<tz, call, ret, prev, ADMIN_SECRET, cookies>>

----------------------------------------------------------------------------
(* Bounds of the model *)

\* the last-fired timestamps lie in the years 2023 .. 2023 + YearSpan
YearSpan == 1
\* weekly_days / monthly_days hold at most MaxDays distinct values
MaxDays == 2
\* the texts to escape have at most MaxTextLen characters
MaxTextLen == 4

----------------------------------------------------------------------------
(* Values *)

NoneVal == [kind |-> "None"]
Some(v) == [kind |-> "value", value |-> v]
Raised(e) == [kind |-> "error", error |-> e]

Idle == [op |-> "idle"]

Min(S) == CHOOSE x \in S : \A y \in S : x <= y

----------------------------------------------------------------------------
(* datetime: the calendar of the standard library *)

IsLeap(year) == (year % 4 = 0 /\ year % 100 # 0) \/ (year % 400 = 0)

days_in_month(year, month) ==
    IF month = 2
    THEN (IF IsLeap(year) THEN 29 ELSE 28)
    ELSE <<31, 28, 31, 30, 31, 30, 31, 31, 30, 31, 30, 31>>[month]

\* what datetime(...) and datetime.replace(...) accept; anything else raises
\* ValueError
ValidDate(year, month, day) ==
    /\ year \in 1..9999
    /\ month \in 1..12
    /\ day \in 1..days_in_month(year, month)

ValidTime(hour, minute) == hour \in 0..23 /\ minute \in 0..59

DT(y, m, d, h, mi) == [year |-> y, month |-> m, day |-> d, hour |-> h, minute |-> mi]

\* date.toordinal(): 0001-01-01 is day 1
DaysBeforeYear(year) ==
    LET y == year - 1 IN y * 365 + (y \div 4) - (y \div 100) + (y \div 400)

DaysBeforeMonth(year, month) ==
    <<0, 31, 59, 90, 120, 151, 181, 212, 243, 273, 304, 334>>[month]
        + (IF month > 2 /\ IsLeap(year) THEN 1 ELSE 0)

Ordinal(dt) == DaysBeforeYear(dt.year) + DaysBeforeMonth(dt.year, dt.month) + dt.day

\* date.fromordinal(n), with the time of day given
FromOrdinal(n, hour, minute) ==
    LET year  == CHOOSE y \in ((n - 1) \div 366 + 1) .. ((n - 1) \div 365 + 1) :
                     DaysBeforeYear(y) < n /\ n <= DaysBeforeYear(y + 1)
        inyear == n - DaysBeforeYear(year)
        month == CHOOSE m \in 1..12 :
                     /\ DaysBeforeMonth(year, m) < inyear
                     /\ inyear <= DaysBeforeMonth(year, m) + days_in_month(year, m)
    IN  DT(year, month, inyear - DaysBeforeMonth(year, month), hour, minute)

\* date.weekday(): Monday = 0 .. Sunday = 6
Weekday(dt) == (Ordinal(dt) + 6) % 7

\* minutes since 0001-01-01 00:00 of a naive datetime
ToMinutes(dt) == (Ordinal(dt) - 1) * 1440 + dt.hour * 60 + dt.minute

\* datetime + timedelta(minutes=k)
AddMinutes(dt, k) ==
    LET total == ToMinutes(dt) + k
        rest  == total % 1440
    IN  FromOrdinal(total \div 1440 + 1, rest \div 60, rest % 60)

\* datetime + timedelta(days=n)
AddDays(dt, n) == FromOrdinal(Ordinal(dt) + n, dt.hour, dt.minute)

\* the result of date arithmetic: a datetime, or OverflowError out of the
\* representable years
Checked(dt) == IF dt.year \in 1..9999 THEN Some(dt) ELSE Raised("OverflowError")

\* datetime.replace(year=, month=, day=): the new value, or ValueError
Replace(dt, year, month, day) ==
    IF ValidDate(year, month, day)
    THEN Some([dt EXCEPT !.year = year, !.month = month, !.day = day])
    ELSE Raised("ValueError")

----------------------------------------------------------------------------
(* The recurrence resolver *)

\* the scan that returns the current day itself (range(0, 8))
find_next_weekday_from_today(current, days) ==
    LET hits == {i \in 0..7 : Weekday(AddDays(current, i)) \in days}
    IN  IF hits # {}
        THEN Checked(AddDays(current, Min(hits)))
        ELSE Checked(AddDays(current, 7))

find_next_weekday(current, days) ==
    LET hits == {i \in 1..7 : Weekday(AddDays(current, i)) \in days}
    IN  IF hits # {}
        THEN Checked(AddDays(current, Min(hits)))
        ELSE Checked(AddDays(current, 7))

\* the search that, when no day of the list is a date of the next month, moves
\* on to the month after it instead of falling back to the 1st
find_next_monthly_day_skip_month(current, days) ==
    LET filtered   == {d \in days : 1 <= d /\ d <= 31}
        valid_days == IF filtered = {} THEN {1} ELSE filtered
        here       == {d \in valid_days :
                          /\ d > current.day
                          /\ Replace(current, current.year, current.month, d).kind = "value"}
        next_month == IF current.month + 1 > 12 THEN 1 ELSE current.month + 1
        next_year  == IF current.month + 1 > 12 THEN current.year + 1 ELSE current.year
        there      == {d \in valid_days :
                          Replace(current, next_year, next_month, d).kind = "value"}
        after_month == IF next_month + 1 > 12 THEN 1 ELSE next_month + 1
        after_year  == IF next_month + 1 > 12 THEN next_year + 1 ELSE next_year
    IN  IF here # {}
        THEN Replace(current, current.year, current.month, Min(here))
        ELSE IF there # {}
             THEN Replace(current, next_year, next_month, Min(there))
             ELSE Replace(current, after_year, after_month, Min(valid_days))

\* the search of the current month that accepts the current day (d >= current_day)
find_next_monthly_day_same_day(current, days) ==
    LET filtered   == {d \in days : 1 <= d /\ d <= 31}
        valid_days == IF filtered = {} THEN {1} ELSE filtered
        here       == {d \in valid_days :
                          /\ d >= current.day
                          /\ Replace(current, current.year, current.month, d).kind = "value"}
        next_month == IF current.month + 1 > 12 THEN 1 ELSE current.month + 1
        next_year  == IF current.month + 1 > 12 THEN current.year + 1 ELSE current.year
        there      == {d \in valid_days :
                          Replace(current, next_year, next_month, d).kind = "value"}
    IN  IF here # {}
        THEN Replace(current, current.year, current.month, Min(here))
        ELSE IF there # {}
             THEN Replace(current, next_year, next_month, Min(there))
             ELSE Replace(current, next_year, next_month, 1)

find_next_monthly_day(current, days) ==
    LET filtered   == {d \in days : 1 <= d /\ d <= 31}
        valid_days == IF filtered = {} THEN {1} ELSE filtered
        \* first loop: the smallest d > current_day that replace() accepts
        here       == {d \in valid_days :
                          /\ d > current.day
                          /\ Replace(current, current.year, current.month, d).kind = "value"}
        next_month == IF current.month + 1 > 12 THEN 1 ELSE current.month + 1
        next_year  == IF current.month + 1 > 12 THEN current.year + 1 ELSE current.year
        \* second loop: the smallest d that replace() accepts in the next month
        there      == {d \in valid_days :
                          Replace(current, next_year, next_month, d).kind = "value"}
    IN  IF here # {}
        THEN Replace(current, current.year, current.month, Min(here))
        ELSE IF there # {}
             THEN Replace(current, next_year, next_month, Min(there))
             ELSE Replace(current, next_year, next_month, 1)

\* the resolver without the defaults: an empty day list ends the recurrence
next_recurrence_time_no_default(original, recurrence, last, weekly_days, monthly_days) ==
    IF recurrence = "once" THEN NoneVal
    ELSE IF recurrence = "daily" THEN Checked(AddDays(last, 1))
    ELSE IF recurrence = "weekly"
         THEN (IF weekly_days = {} THEN NoneVal ELSE find_next_weekday(last, weekly_days))
    ELSE IF recurrence = "monthly"
         THEN (IF monthly_days = {} THEN NoneVal ELSE find_next_monthly_day(last, monthly_days))
    ELSE NoneVal

\* the resolver in which 'daily' with weekly_days given is resolved as a weekly rule
next_recurrence_time_daily_as_weekly(original, recurrence, last, weekly_days, monthly_days) ==
    IF recurrence = "once" THEN NoneVal
    ELSE IF recurrence = "daily" /\ weekly_days = {} THEN Checked(AddDays(last, 1))
    ELSE IF recurrence \in {"daily", "weekly"}
         THEN find_next_weekday(last, IF weekly_days = {} THEN {0} ELSE weekly_days)
    ELSE IF recurrence = "monthly"
         THEN find_next_monthly_day(last, IF monthly_days = {} THEN {1} ELSE monthly_days)
    ELSE NoneVal

next_recurrence_time(original, recurrence, last, weekly_days, monthly_days) ==
    IF recurrence = "once" THEN NoneVal
    ELSE IF recurrence = "daily" THEN Checked(AddDays(last, 1))
    ELSE IF recurrence = "weekly"
         THEN find_next_weekday(last, IF weekly_days = {} THEN {0} ELSE weekly_days)
    ELSE IF recurrence = "monthly"
         THEN find_next_monthly_day(last, IF monthly_days = {} THEN {1} ELSE monthly_days)
    ELSE NoneVal

----------------------------------------------------------------------------
(* The task fingerprint *)

Digit(n) == <<"0", "1", "2", "3", "4", "5", "6", "7", "8", "9">>[n + 1]

\* str(n) of an integer, as f"{chat_id}" formats it
IntToStr(n) ==
    LET digits[k \in Nat] ==
            IF k < 10 THEN <<Digit(k)>> ELSE Append(digits[k \div 10], Digit(k % 10))
    IN  IF n < 0 THEN <<"-">> \o digits[0 - n] ELSE digits[n]

\* x or '': the empty string for None (and for the empty string)
OrEmpty(x) == IF x.kind = "None" THEN <<>> ELSE x.value

\* hashlib.md5(...).hexdigest(), taken as injective on its input
Md5(content) == [md5 |-> content]

generate_task_hash(chat_id, text, photo_file_id, document_file_id, publish_at, recurrence) ==
    Md5(IntToStr(chat_id) \o <<"|">> \o OrEmpty(text) \o <<"|">>
        \o OrEmpty(photo_file_id) \o <<"|">> \o OrEmpty(document_file_id)
        \o <<"|">> \o publish_at \o <<"|">> \o recurrence)

----------------------------------------------------------------------------
(* The parser of user date-times *)

Max(S) == CHOOSE x \in S : \A y \in S : x >= y

Digits == {"0", "1", "2", "3", "4", "5", "6", "7", "8", "9"}

\* the whitespace characters of the pattern, which str.strip() removes
Whitespace == {" ", "\t", "\n"}

DigitValue(c) == CHOOSE n \in 0..9 : Digit(n) = c

\* int() of the digits s[from..to]
IntOf(s, from, to) ==
    LET value[i \in (from - 1)..to] ==
            IF i < from THEN 0 ELSE value[i - 1] * 10 + DigitValue(s[i])
    IN  value[to]

AllDigits(s, from, to) == \A i \in from..to : s[i] \in Digits

\* str.strip()
Strip(s) ==
    LET keep == {i \in 1..Len(s) : s[i] \notin Whitespace}
    IN  IF keep = {} THEN <<>> ELSE SubSeq(s, Min(keep), Max(keep))

\* re.match of the pattern  dd.dd.dddd<whitespace, one or more>dd:dd  on s: the
\* five groups, or None.  The match is anchored at the start of s only, and the
\* whitespace taken is the whole run that follows the year.
MatchDateTime(s) ==
    LET \* the first position after the year that is not whitespace
        after == Min({i \in 11..(Len(s) + 1) : i > Len(s) \/ s[i] \notin Whitespace})
    IN  IF /\ Len(s) >= 10
           /\ AllDigits(s, 1, 2) /\ s[3] = "."
           /\ AllDigits(s, 4, 5) /\ s[6] = "."
           /\ AllDigits(s, 7, 10)
           /\ after > 11
           /\ Len(s) >= after + 4
           /\ AllDigits(s, after, after + 1) /\ s[after + 2] = ":"
           /\ AllDigits(s, after + 3, after + 4)
        THEN Some(<<SubSeq(s, 1, 2), SubSeq(s, 4, 5), SubSeq(s, 7, 10),
                    SubSeq(s, after, after + 1), SubSeq(s, after + 3, after + 4)>>)
        ELSE NoneVal

\* datetime.datetime(year, month, day, hour, minute)
MakeDateTime(year, month, day, hour, minute) ==
    IF ValidDate(year, month, day) /\ ValidTime(hour, minute)
    THEN Some(DT(year, month, day, hour, minute))
    ELSE Raised("ValueError")

\* the conversion with the sign of the offset reversed
LocalizeToUtc_added(naive_local, zone) == Checked(AddMinutes(naive_local, zone))

\* TIMEZONE.localize(naive).astimezone(UTC).replace(tzinfo=None)
LocalizeToUtc(naive_local, zone) == Checked(AddMinutes(naive_local, 0 - zone))

parse_user_datetime(user_input, zone) ==
    LET match == MatchDateTime(Strip(user_input))
    IN  IF match = NoneVal THEN Raised("FormatError")
        ELSE LET g == match.value
                 naive_local == MakeDateTime(IntOf(g[3], 1, 4), IntOf(g[2], 1, 2),
                                             IntOf(g[1], 1, 2), IntOf(g[4], 1, 2),
                                             IntOf(g[5], 1, 2))
             IN  IF naive_local.kind # "value" THEN naive_local
                 ELSE LET utc_naive == LocalizeToUtc(naive_local.value, zone)
                      IN  IF utc_naive.kind # "value" THEN utc_naive
                          ELSE Some(<<naive_local.value, utc_naive.value>>)

----------------------------------------------------------------------------
(* The MarkdownV2 escaper *)

\* the backtick character (a string of the module cannot hold it as such)
Backtick == "backtick"

\* the characters of the character class of the escaping pattern
Reserved == {"_", "*", "[", "]", "(", ")", "~", Backtick, ">", "#", "+", "-", "=", "|",
             "{", "}", ".", "!"}

\* f"__{tag}{n}__"
Placeholder(tag, n) == <<"_", "_">> \o tag \o IntToStr(n) \o <<"_", "_">>

BOLD == <<"B", "O", "L", "D">>
ITALIC == <<"I", "T", "A", "L", "I", "C">>
CODE == <<"C", "O", "D", "E">>

\* the end of the match of  delim ([^delim]+) delim  that starts at i, or 0
SpanEnd(s, delim, i) ==
    IF s[i] = delim /\ i + 1 <= Len(s) /\ s[i + 1] # delim
    THEN LET closing == {j \in (i + 2)..Len(s) : s[j] = delim}
         IN  IF closing = {} THEN 0 ELSE Min(closing)
    ELSE 0

\* re.sub(pattern, save, s): the leftmost non-overlapping spans are replaced by
\* numbered placeholders; "text" is the new string, "matches" the saved spans
SubSpans(s, delim, tag) ==
    LET scan[i \in 1..(Len(s) + 1), n \in 0..Len(s)] ==
            IF i > Len(s) THEN [text |-> <<>>, matches |-> <<>>]
            ELSE IF SpanEnd(s, delim, i) > 0
                 THEN LET rest == scan[SpanEnd(s, delim, i) + 1, n + 1]
                      IN  [text    |-> Placeholder(tag, n) \o rest.text,
                           matches |-> <<SubSeq(s, i, SpanEnd(s, delim, i))>> \o rest.matches]
                 ELSE LET rest == scan[i + 1, n]
                      IN  [text |-> <<s[i]>> \o rest.text, matches |-> rest.matches]
    IN  scan[1, 0]

\* the escaping re.sub: a backslash before every reserved character
EscapeReserved(s) ==
    LET esc[i \in 1..(Len(s) + 1)] ==
            IF i > Len(s) THEN <<>>
            ELSE (IF s[i] \in Reserved THEN <<"\\", s[i]>> ELSE <<s[i]>>) \o esc[i + 1]
    IN  esc[1]

OccursAt(s, pat, i) ==
    /\ i + Len(pat) - 1 <= Len(s)
    /\ SubSeq(s, i, i + Len(pat) - 1) = pat

\* s.replace(pat, rep), pat not empty
StrReplace(s, pat, rep) ==
    LET out[i \in 1..(Len(s) + 1)] ==
            IF i > Len(s) THEN <<>>
            ELSE IF OccursAt(s, pat, i) THEN rep \o out[i + Len(pat)]
            ELSE <<s[i]>> \o out[i + 1]
    IN  out[1]

\* for i, match in enumerate(matches): s = s.replace(f"__{tag}{i}__", match)
Restore(s, tag, matches) ==
    LET done[k \in 0..Len(matches)] ==
            IF k = 0 THEN s
            ELSE StrReplace(done[k - 1], Placeholder(tag, k - 1), matches[k])
    IN  done[Len(matches)]

escape_markdown_v2(text) ==
    IF text = <<>> THEN text
    ELSE LET bold    == SubSpans(text, "*", BOLD)
             italic  == SubSpans(bold.text, "_", ITALIC)
             code    == SubSpans(italic.text, Backtick, CODE)
             escaped == EscapeReserved(code.text)
         IN  Restore(Restore(Restore(escaped, BOLD, bold.matches),
                             ITALIC, italic.matches),
                     CODE, code.matches)

----------------------------------------------------------------------------
(* The admin middleware *)

\* truth value of an optional string: None and the empty string are false
Truthy(x) == x.kind = "value" /\ x.value # ""

\* a or b
Or(a, b) == IF Truthy(a) THEN a ELSE b

\* s.startswith(prefix)
startswith(s, prefix) ==
    Len(s) >= Len(prefix) /\ SubSeq(s, 1, Len(prefix)) = prefix

\* pat in s
InPath(pat, s) == \E i \in 1..Len(s) : OccursAt(s, pat, i)

AdminPath == <<"/", "a", "d", "m", "i", "n">>

AdminCreatePath == AdminPath \o <<"/", "c", "r", "e", "a", "t", "e">>

AdminEditPath == AdminPath \o <<"/", "e", "d", "i", "t">>

AdminDeletePath == AdminPath \o <<"/", "d", "e", "l", "e", "t", "e">>

ExportCsvPath == AdminPath \o <<"/", "e", "x", "p", "o", "r", "t", ".", "c", "s", "v">>

DebugFormPath == <<"/", "d", "e", "b", "u", "g", "-", "f", "o", "r", "m">>

protected_paths ==
    {AdminPath, AdminPath \o <<"/">>, AdminCreatePath, AdminEditPath,
     AdminDeletePath, ExportCsvPath, DebugFormPath}

\* the form field, which is read for the methods that carry a body only
secret_from_form(request) ==
    IF request.method \in {"POST", "PUT", "PATCH"} THEN request.form ELSE NoneVal

actual_secret(request) ==
    Or(Or(Or(request.header, request.query), secret_from_form(request)), request.cookie)

is_protected(request) ==
    /\ \E path \in protected_paths : startswith(request.path, path)
    /\ ~startswith(request.path, ExportCsvPath)

\* a response: call_next tells whether the request went to the handlers
\* behind the middleware, set_cookie is the admin_secret cookie it sets
Response(status, media, call_next, set_cookie, location) ==
    [status |-> status, media |-> media, call_next |-> call_next,
     set_cookie |-> set_cookie, location |-> location]

\* the redirect target: base_url with the secret and the error in its query
get_safe_redirect_url(base_url, secret, error) ==
    [path |-> base_url, secret |-> secret, error |-> error]

\* the answer of the except clause
InternalServerError(call_next) == Response(500, "json", call_next, NoneVal, NoneVal)

\* downstream is what the handlers behind the middleware do with a request
\* they are given: a response of some status, or an exception.  The server
\* listens on a TCP port, so a request has the address of its client.
admin_secret_middleware(request, admin_secret, downstream) ==
    LET actual == actual_secret(request)
    IN  IF is_protected(request) /\ Truthy(admin_secret) /\ actual # admin_secret
        THEN Response(403, IF request.json THEN "json" ELSE "html", FALSE, NoneVal, NoneVal)
        ELSE IF /\ request.path = ExportCsvPath
                /\ Truthy(admin_secret)
                /\ actual # admin_secret
        THEN Response(303, "redirect", FALSE, NoneVal,
                      Some(get_safe_redirect_url(AdminPath, admin_secret.value,
                                                 "Admin access required for export")))
        ELSE IF downstream.kind = "error"
        THEN InternalServerError(TRUE)
        ELSE Response(downstream.value, "handler", TRUE,
                      IF Truthy(actual) /\ InPath(AdminPath, request.path)
                      THEN actual ELSE NoneVal,
                      NoneVal)

----------------------------------------------------------------------------
(* Inputs of the model *)

\* the zones the process may be configured with: UTC and UTC+3
TzOffsets == {0, 180}

Years == 2023 .. (2023 + YearSpan)

TimesOfDay == {<<10, 0>>, <<22, 30>>}

\* the days of the month a last-fired timestamp is drawn from: the start, the
\* middle and the end of a month, next to the days of MonthlySets
DaysOfMonth == {1, 2, 14, 15, 16, 25, 28, 29, 30, 31}

Lasts ==
    {DT(y, m, d, t[1], t[2]) : y \in Years, m \in 1..12, d \in DaysOfMonth, t \in TimesOfDay}

LastFired == {dt \in Lasts : ValidDate(dt.year, dt.month, dt.day)}

Original == DT(2023, 1, 1, 10, 0)

Kinds == {"once", "daily", "weekly", "monthly", "yearly"}

\* weekly_days and monthly_days are lists in the code, which only tests
\* membership in them and sorts them: a list is modelled by the set of its
\* values, and None by the empty set (both are falsy)
SmallSets(pool) == {S \in SUBSET pool : Cardinality(S) <= MaxDays}

\* weekday ordinals, with one value out of 0..6
WeeklySets == SmallSets(0..7)

\* days of the month, with values out of 1..31
MonthlySets == SmallSets({0, 1, 15, 16, 29, 30, 31, 32})

\* the parameter the kind does not read
OtherWeekly(recurrence) == IF recurrence = "monthly" THEN {{2}} ELSE {{}, {2}}
OtherMonthly(recurrence) == IF recurrence = "weekly" THEN {{15}} ELSE {{}, {15}}

\* the fields of a task identity
ChatIds == {7, -12}
Texts == {NoneVal, Some(<<"a">>), Some(<<"a", "|", "b">>)}
PhotoIds == {NoneVal, Some(<<"b">>), Some(<<"b", "|">>)}
DocumentIds == {NoneVal, Some(<<"c">>)}
PublishAts == {<<"t">>, <<"c", "|", "t">>}
RecurrenceLabels == {<<"o", "n", "c", "e">>, <<"d", "a", "i", "l", "y">>}

\* the parts a user input is put together from: the expected form
\* DD.MM.YYYY HH:MM and its near misses
LeadParts == {<<>>, <<" ">>}
DayParts == {<<"1", "5">>, <<"0", "1">>, <<"3", "1">>, <<"5">>}
DateSeparators == {".", "-"}
MonthParts == {<<"0", "3">>, <<"0", "1">>, <<"0", "2">>, <<"1", "3">>}
YearParts == {<<"2", "0", "2", "4">>, <<"2", "0", "2", "3">>}
GapParts == {<<" ">>, <<" ", " ">>, <<"\t">>, <<>>}
HourParts == {<<"0", "9">>, <<"0", "0">>, <<"2", "4">>}
TimeSeparators == {":", "."}
MinuteParts == {<<"3", "0">>, <<"6", "0">>}
TrailParts == {<<>>, <<" ">>, <<"x">>, <<"0">>}

\* "2024-03-15 09:30"
IsoInput == <<"2", "0", "2", "4", "-", "0", "3", "-", "1", "5", " ", "0", "9", ":", "3", "0">>

UserInputs ==
    {lead \o day \o <<sep>> \o month \o <<sep>> \o year \o gap \o hour \o <<colon>>
          \o minute \o trail :
        lead \in LeadParts, day \in DayParts, sep \in DateSeparators,
        month \in MonthParts, year \in YearParts, gap \in GapParts,
        hour \in HourParts, colon \in TimeSeparators, minute \in MinuteParts,
        trail \in TrailParts} \cup {IsoInput}

\* the texts to escape: every string of at most MaxTextLen characters over
\* TextAlphabet, and the sentence "Hello *world* and _this_!"
TextAlphabet == {"a", "*", "_", Backtick, "!"}

HelloText == <<"H", "e", "l", "l", "o", " ", "*", "w", "o", "r", "l", "d", "*", " ", "a", "n", "d", " ", "_", "t", "h", "i", "s", "_", "!">>

Texts2Escape ==
    (UNION {[1..n -> TextAlphabet] : n \in 0..MaxTextLen}) \cup {HelloText}

\* the configuration: no admin secret, or one
AdminSecrets == {NoneVal, Some("qwerty12345")}

\* what a request carries as a secret: nothing, a wrong value, the right one
\* (and, in the header, the empty string)
SecretsSent == {NoneVal, Some("guess"), Some("qwerty12345")}

Methods == {"GET", "POST"}

\* paths under the admin prefix, the export path and two paths that extend
\* it, the debug form, and two paths outside the admin area
RequestPaths ==
    {AdminPath, AdminCreatePath, AdminPath \o <<"/", "d", "e", "b", "u", "g">>,
     ExportCsvPath, ExportCsvPath \o <<"/">>, ExportCsvPath \o <<".", "b", "a", "k">>,
     DebugFormPath, <<"/", "h", "e", "a", "l", "t", "h">>, <<"/", "x">> \o AdminPath}

\* what the handlers behind the middleware answer
Downstream == {Some(200), Some(404), Raised("Exception")}

----------------------------------------------------------------------------
(* Actions *)

Init ==
    /\ tz \in TzOffsets
    /\ call = Idle
    /\ ret = NoneVal
    /\ prev = NoneVal
    /\ ADMIN_SECRET \in AdminSecrets
    /\ cookies = NoneVal

NextRecurrenceTime ==
    /\ call.op = "idle"
    /\ \E recurrence \in Kinds, last \in LastFired :
       \E weekly_days \in (IF recurrence = "weekly" THEN WeeklySets ELSE OtherWeekly(recurrence)),
          monthly_days \in (IF recurrence = "monthly" THEN MonthlySets ELSE OtherMonthly(recurrence)) :
          /\ call' = [op |-> "next_recurrence_time", recurrence |-> recurrence,
                      last |-> last, weekly_days |-> weekly_days,
                      monthly_days |-> monthly_days]
          /\ ret' = next_recurrence_time(Original, recurrence, last,
                                         weekly_days, monthly_days)
    /\ UNCHANGED <<tz, prev, ADMIN_SECRET, cookies>>

Return ==
    /\ call.op # "idle"
    /\ call' = Idle
    /\ ret' = NoneVal
    /\ prev' = NoneVal
    /\ UNCHANGED <<tz, ADMIN_SECRET, cookies>>

\* a fingerprint call, alone or right after another one whose identity and
\* result prev then keeps (the duplicate check compares the two)
GenerateTaskHash ==
    /\ call.op \in {"idle", "generate_task_hash"}
    /\ prev = NoneVal
    /\ \E chat_id \in ChatIds, text \in Texts, photo_file_id \in PhotoIds,
          document_file_id \in DocumentIds, publish_at \in PublishAts,
          recurrence \in RecurrenceLabels :
          /\ call' = [op |-> "generate_task_hash", chat_id |-> chat_id, text |-> text,
                      photo_file_id |-> photo_file_id,
                      document_file_id |-> document_file_id,
                      publish_at |-> publish_at, recurrence |-> recurrence]
          /\ ret' = Some(generate_task_hash(chat_id, text, photo_file_id,
                                            document_file_id, publish_at, recurrence))
    /\ prev' = (IF call.op = "generate_task_hash"
                THEN Some([call |-> call, ret |-> ret])
                ELSE NoneVal)
    /\ UNCHANGED <<tz, ADMIN_SECRET, cookies>>

ParseUserDatetime ==
    /\ call.op = "idle"
    /\ \E user_input \in UserInputs :
          /\ call' = [op |-> "parse_user_datetime", user_input |-> user_input]
          /\ ret' = parse_user_datetime(user_input, tz)
    /\ UNCHANGED <<tz, prev, ADMIN_SECRET, cookies>>

EscapeMarkdownV2 ==
    /\ call.op = "idle"
    /\ \E text \in Texts2Escape :
          /\ call' = [op |-> "escape_markdown_v2", text |-> text]
          /\ ret' = Some(escape_markdown_v2(text))
    /\ UNCHANGED <<tz, prev, ADMIN_SECRET, cookies>>

\* one request through the middleware; the client keeps the cookie that the
\* response sets and sends it, or no cookie, with a later request
AdminSecretMiddleware ==
    /\ call.op = "idle"
    /\ \E method \in Methods, path \in RequestPaths,
          header \in SecretsSent \cup {Some("")}, query \in SecretsSent,
          cookie \in {NoneVal, cookies}, json \in BOOLEAN,
          downstream \in Downstream :
       \E form \in (IF method = "POST" THEN {NoneVal, Some("qwerty12345")} ELSE {NoneVal}) :
          LET request == [method |-> method, path |-> path, header |-> header,
                          query |-> query, form |-> form, cookie |-> cookie,
                          json |-> json]
              response == admin_secret_middleware(request, ADMIN_SECRET, downstream)
          IN  /\ call' = [op |-> "admin_secret_middleware", request |-> request]
              /\ ret' = Some(response)
              /\ cookies' = (IF response.set_cookie.kind = "value"
                             THEN response.set_cookie ELSE cookies)
    /\ UNCHANGED <<tz, prev, ADMIN_SECRET>>

NextRecur == NextRecurrenceTime \/ Return

NextHash == GenerateTaskHash \/ Return

SpecHash == Init /\ [][NextHash]_vars

NextParse == ParseUserDatetime \/ Return

SpecParse == Init /\ [][NextParse]_vars

NextEscape == EscapeMarkdownV2 \/ Return

SpecEscape == Init /\ [][NextEscape]_vars

NextWeb == AdminSecretMiddleware \/ Return

SpecWeb == Init /\ [][NextWeb]_vars

Next ==
    \/ NextRecurrenceTime
    \/ GenerateTaskHash
    \/ ParseUserDatetime
    \/ EscapeMarkdownV2
    \/ AdminSecretMiddleware
    \/ Return

Spec == Init /\ [][Next]_vars

SpecRecur == Init /\ [][NextRecur]_vars

----------------------------------------------------------------------------
(* Claims about the recurrence resolver (checked under SpecRecur) *)

IsRecurrenceCall(kind) ==
    call.op = "next_recurrence_time" /\ call.recurrence = kind

ValidDateTime(dt) ==
    ValidDate(dt.year, dt.month, dt.day) /\ ValidTime(dt.hour, dt.minute)

SameTimeOfDay(a, b) == a.hour = b.hour /\ a.minute = b.minute

\* the same time on the next calendar day
NextDay(dt) ==
    IF dt.day < days_in_month(dt.year, dt.month)
    THEN [dt EXCEPT !.day = dt.day + 1]
    ELSE IF dt.month < 12
         THEN [dt EXCEPT !.month = dt.month + 1, !.day = 1]
         ELSE [dt EXCEPT !.year = dt.year + 1, !.month = 1, !.day = 1]

\* the local-zone view of a naive UTC datetime, and back
UtcToLocal(dt) == AddMinutes(dt, tz)
LocalToUtc(dt) == AddMinutes(dt, 0 - tz)

C1_Case ==
    /\ tz = 0
    /\ IsRecurrenceCall("monthly")
    /\ call.monthly_days = {31}
    /\ call.last = DT(2024, 1, 31, 10, 0)

\* C1 as stated: with the zone UTC, monthly on {31} after 2024-01-31 10:00
\* gives 2024-03-31 10:00 (February is skipped).
C1_AsStated == C1_Case => ret = Some(DT(2024, 3, 31, 10, 0))

\* C1 amended: with the zone UTC, monthly on {31} after 2024-01-31 10:00 gives
\* 2024-02-01 10:00: no day of the set is a date of February, so the resolver
\* falls back to the 1st of February.
C1_Amended == C1_Case => ret = Some(DT(2024, 2, 1, 10, 0))

C1_Witness == C1_Case /\ ret.kind = "value" /\ ret.value.month = 2

\* the days strictly between two datetimes, as offsets from the first
DaysBetween(t, r) == 1 .. (Ordinal(r) - Ordinal(t) - 1)

\* C2: for monthly recurrence the result is strictly later than the last-fired
\* time in the local zone, and no local date strictly between the two has its
\* day-of-month in the set.
C2_NoSkipLocal ==
    (IsRecurrenceCall("monthly") /\ ret.kind = "value") =>
        LET t == UtcToLocal(call.last)
            r == UtcToLocal(ret.value)
        IN  /\ ToMinutes(r) > ToMinutes(t)
            /\ \A k \in DaysBetween(t, r) : AddDays(t, k).day \notin call.monthly_days

\* C3: for weekly recurrence with a non-empty set of weekdays within 0..6 the
\* result is later than the last-fired time by at most 7 days, falls on a
\* weekday of the set, keeps the time of day, and is the earliest such day.
C3_Weekly ==
    (/\ IsRecurrenceCall("weekly")
     /\ call.weekly_days # {}
     /\ call.weekly_days \subseteq 0..6) =>
        /\ ret.kind = "value"
        /\ LET t == call.last
               r == ret.value
           IN  /\ ValidDateTime(r)
               /\ ToMinutes(r) > ToMinutes(t)
               /\ ToMinutes(r) <= ToMinutes(t) + 7 * 1440
               /\ Weekday(r) \in call.weekly_days
               /\ SameTimeOfDay(r, t)
               /\ \A k \in DaysBetween(t, r) :
                      (Ordinal(t) + k + 6) % 7 \notin call.weekly_days

\* a weekly call whose only weekday is the one of the last-fired day, answered a
\* full week later, across the end of a month
C3_Witness ==
    /\ IsRecurrenceCall("weekly")
    /\ call.weekly_days = {Weekday(call.last)}
    /\ ret.kind = "value"
    /\ Ordinal(ret.value) = Ordinal(call.last) + 7
    /\ ret.value.month # call.last.month

\* C4: for monthly recurrence the day is selected on the local-zone view of the
\* last-fired UTC time and the chosen local datetime is converted back to UTC.
C4_LocalSelection ==
    (IsRecurrenceCall("monthly") /\ ret.kind = "value") =>
        LET days  == IF call.monthly_days = {} THEN {1} ELSE call.monthly_days
            local == find_next_monthly_day(UtcToLocal(call.last), days)
        IN  local.kind = "value" /\ ret.value = LocalToUtc(local.value)

\* C5: the resolver returns None exactly for the kinds other than daily, weekly
\* and monthly; for these three it returns a datetime, never None or an error,
\* whatever the day sets are.
C5_Total ==
    (call.op = "next_recurrence_time") =>
        /\ (ret = NoneVal) <=> (call.recurrence \notin {"daily", "weekly", "monthly"})
        /\ (call.recurrence \in {"daily", "weekly", "monthly"}) =>
               (ret.kind = "value" /\ ValidDateTime(ret.value))

\* a monthly call whose days are all out of 1..31, answered with a datetime
C5_Witness ==
    /\ IsRecurrenceCall("monthly")
    /\ call.monthly_days = {0, 32}
    /\ ret.kind = "value"

\* C6: for daily recurrence the result is the last-fired time plus 24 hours,
\* whatever the zone and the day sets passed.
C6_Daily ==
    IsRecurrenceCall("daily") =>
        /\ ret.kind = "value"
        /\ ret.value = NextDay(call.last)
        /\ ToMinutes(ret.value) = ToMinutes(call.last) + 1440

\* a daily call in a zone other than UTC, with both day sets given, across the
\* end of a year
C6_Witness ==
    /\ IsRecurrenceCall("daily")
    /\ tz # 0
    /\ call.weekly_days # {}
    /\ call.monthly_days # {}
    /\ call.last.month = 12
    /\ call.last.day = 31
    /\ ret.kind = "value"
    /\ ret.value.year = call.last.year + 1

\* the month that follows the month of a datetime, as <<year, month>>
FollowingMonth(dt) ==
    IF dt.month = 12 THEN <<dt.year + 1, 1>> ELSE <<dt.year, dt.month + 1>>

\* the days of a list that a month of the calendar has
DaysIn(days, year, month) == {d \in days : 1 <= d /\ d <= days_in_month(year, month)}

\* C11: the monthly search drops the values out of 1..31 (the 1st when nothing
\* is left), then takes the smallest day of the list after the current day that
\* the current month has; failing that the smallest day of the list that the
\* following month has; failing that the 1st of the following month.  The
\* result is never later than the end of the following month and keeps the
\* time of day.
C11_TwoPass ==
    IsRecurrenceCall("monthly") =>
        /\ ret.kind = "value"
        /\ LET t      == call.last
               r      == ret.value
               kept   == {d \in call.monthly_days : d \in 1..31}
               days   == IF kept = {} THEN {1} ELSE kept
               later  == {d \in DaysIn(days, t.year, t.month) : d > t.day}
               nm     == FollowingMonth(t)
               coming == DaysIn(days, nm[1], nm[2])
           IN  /\ SameTimeOfDay(r, t)
               /\ <<r.year, r.month>> \in {<<t.year, t.month>>, nm}
               /\ later # {} => r = DT(t.year, t.month, Min(later), t.hour, t.minute)
               /\ (later = {} /\ coming # {}) =>
                      r = DT(nm[1], nm[2], Min(coming), t.hour, t.minute)
               /\ (later = {} /\ coming = {}) =>
                      r = DT(nm[1], nm[2], 1, t.hour, t.minute)

\* a monthly call on {30, 31} fired on 31 January: no day of the list is a date
\* of February, and the answer is the 1st of February
C11_Witness ==
    /\ IsRecurrenceCall("monthly")
    /\ call.monthly_days = {30, 31}
    /\ call.last.month = 1
    /\ call.last.day = 31
    /\ ret.kind = "value"
    /\ ret.value.month = 2
    /\ ret.value.day = 1

----------------------------------------------------------------------------
(* Claims about the task fingerprint (checked under SpecHash) *)

TwoHashCalls == call.op = "generate_task_hash" /\ prev.kind = "value"

\* C7: two identities equal field by field have equal fingerprints, and two
\* identities that differ in a hashed field have different fingerprints (the
\* digest taken as injective), absent fields and '|' in field values allowed.
C7_Injective ==
    TwoHashCalls =>
        (call = prev.value.call) <=> (ret = prev.value.ret)

----------------------------------------------------------------------------
(* Claims about the parser of user date-times (checked under SpecParse) *)

\* exactly DD.MM.YYYY HH:MM: sixteen characters, one space in the middle
WellFormed(s) ==
    /\ Len(s) = 16
    /\ AllDigits(s, 1, 2) /\ s[3] = "."
    /\ AllDigits(s, 4, 5) /\ s[6] = "."
    /\ AllDigits(s, 7, 10) /\ s[11] = " "
    /\ AllDigits(s, 12, 13) /\ s[14] = ":"
    /\ AllDigits(s, 15, 16)

\* the date-time written in a well-formed input, read by position
Written(s) ==
    DT(IntOf(s, 7, 10), IntOf(s, 4, 5), IntOf(s, 1, 2), IntOf(s, 12, 13), IntOf(s, 15, 16))

\* C8: an input passes the format check if and only if, surrounding whitespace
\* removed, it is exactly DD.MM.YYYY HH:MM; every other input fails with the
\* format error and returns no value.
C8_ExactFormat ==
    (call.op = "parse_user_datetime") =>
        (ret = Raised("FormatError")) <=> ~WellFormed(Strip(call.user_input))

March15 == <<"1", "5", ".", "0", "3", ".", "2", "0", "2", "4", " ", "0", "9", ":", "3", "0">>

NewYear == <<"0", "1", ".", "0", "1", ".", "2", "0", "2", "4", " ", "0", "0", ":", "3", "0">>

\* C9: for a well-formed, calendar-valid input the result is (local, utc) with
\* local the date-time written in the input and utc = local minus the offset of
\* the zone; '15.03.2024 09:30' gives utc 09:30 in UTC and 06:30 in UTC+3, and
\* the subtraction crosses to the previous day, month and year where it must.
C9_LocalAndUtc ==
    (/\ call.op = "parse_user_datetime"
     /\ WellFormed(Strip(call.user_input))
     /\ ValidDateTime(Written(Strip(call.user_input)))) =>
        /\ ret.kind = "value"
        /\ LET s     == Strip(call.user_input)
               local == ret.value[1]
               utc   == ret.value[2]
           IN  /\ local = Written(s)
               /\ ValidDateTime(utc)
               /\ ToMinutes(utc) = ToMinutes(local) - tz
               /\ tz = 0 => utc = local
               /\ (s = March15 /\ tz = 180) => utc = DT(2024, 3, 15, 6, 30)
               /\ (s = NewYear /\ tz = 180) => utc = DT(2023, 12, 31, 21, 30)

\* the input '01.01.2024 00:30' in the zone UTC+3, answered with a UTC time in
\* the previous year
C9_Witness ==
    /\ call.op = "parse_user_datetime"
    /\ tz = 180
    /\ Strip(call.user_input) = NewYear
    /\ ret.kind = "value"
    /\ ret.value[2].year = 2023

----------------------------------------------------------------------------
(* Claims about the MarkdownV2 escaper (checked under SpecEscape) *)

Contains(s, pat) == \E i \in 1..Len(s) : OccursAt(s, pat, i)

\* the balanced spans of a text: what each of the three patterns matches in it
BalancedSpans(text) ==
    LET found(matches) == {matches[i] : i \in 1..Len(matches)}
    IN  found(SubSpans(text, "*", BOLD).matches)
            \cup found(SubSpans(text, "_", ITALIC).matches)
            \cup found(SubSpans(text, Backtick, CODE).matches)

\* C10: for a non-empty text every balanced *bold*, _italic_ and code span of
\* the input appears verbatim in the result and no placeholder marker is left;
\* 'Hello *world* and _this_!' keeps '*world*' and '_this_' and ends with an
\* escaped '!'.
C10_SpansKept ==
    (call.op = "escape_markdown_v2" /\ call.text # <<>>) =>
        LET out == ret.value
        IN  /\ \A span \in BalancedSpans(call.text) : Contains(out, span)
            /\ ~Contains(out, BOLD) /\ ~Contains(out, ITALIC) /\ ~Contains(out, CODE)
            /\ call.text = HelloText =>
                   /\ Contains(out, <<"*", "w", "o", "r", "l", "d", "*">>)
                   /\ Contains(out, <<"_", "t", "h", "i", "s", "_">>)
                   /\ SubSeq(out, Len(out) - 1, Len(out)) = <<"\\", "!">>

----------------------------------------------------------------------------
(* Claims about the admin middleware (checked under SpecWeb) *)

IsMiddlewareCall == call.op = "admin_secret_middleware"

\* the request is for the admin area: its path starts with the admin prefix
\* or with the path of the debug form
AdminArea(request) ==
    startswith(request.path, AdminPath) \/ startswith(request.path, DebugFormPath)

\* a request for the admin area, under a configured secret, whose secret
\* (header, else query parameter, else form field, else cookie) is not it
Unauthorised ==
    /\ IsMiddlewareCall
    /\ Truthy(ADMIN_SECRET)
    /\ AdminArea(call.request)
    /\ actual_secret(call.request) # ADMIN_SECRET

\* C12: under a configured ADMIN_SECRET a request for the admin area (the
\* export path and every path that extends it included) whose secret is not
\* ADMIN_SECRET never reaches the handlers behind the middleware and is
\* answered with a 403 or a redirect; and the admin_secret cookie is set only
\* on the responses of requests that reached the handlers.
C12_Guarded ==
    /\ Unauthorised => /\ ~ret.value.call_next
                       /\ ret.value.status \in {403, 303}
    /\ (IsMiddlewareCall /\ Truthy(ADMIN_SECRET) /\ ret.value.set_cookie # NoneVal)
           => ret.value.call_next

====
